---- MODULE Spec2Model ----
(***************************************************************************)
(* Model of the document converter: the batch pipeline of converter.py     *)
(* (DocumentConverter.process / process_file / convert_with_libreoffice,   *)
(* and main) and the delete endpoint of app/main.py (_validate_path_param, *)
(* _safe_join, delete_file).                                               *)
(*                                                                         *)
(* File names are sequences of one-character strings, so that suffix       *)
(* extraction, case folding and ordering are computed as pathlib and str   *)
(* compute them.  A path is a sequence of names (its components).  The     *)
(* file system is POSIX and case-sensitive, as in the service's container. *)
(***************************************************************************)
EXTENDS Naturals, Sequences, FiniteSets, TLC

\* ------------------------------------------------------------------ bounds

\* At most this many files under the input root in one batch.
MaxFiles == 3
\* At most this many delete requests in one run of the delete endpoint.
MaxRequests == 2

\* ------------------------------------------------- characters and strings

\* Code point of a character (str comparison compares code points).
Ord(c) ==
  CASE c = "-" -> 45 [] c = "." -> 46 [] c = "/" -> 47
    [] c = "C" -> 67 [] c = "D" -> 68 [] c = "L" -> 76 [] c = "O" -> 79
    [] c = "S" -> 83 [] c = "X" -> 88
    [] c = "a" -> 97 [] c = "b" -> 98 [] c = "c" -> 99 [] c = "d" -> 100
    [] c = "e" -> 101 [] c = "l" -> 108 [] c = "m" -> 109 [] c = "o" -> 111 [] c = "p" -> 112
    [] c = "s" -> 115 [] c = "t" -> 116 [] c = "w" -> 119 [] c = "x" -> 120

Alphabet ==
  {"-", ".", "/", "C", "D", "L", "O", "S", "X",
   "a", "b", "c", "d", "e", "l", "m", "o", "p", "s", "t", "w", "x"}

Chr(n) == CHOOSE c \in Alphabet : Ord(c) = n

IsUpper(c) == Ord(c) \in 65..90
IsLower(c) == Ord(c) \in 97..122

\* str.lower / str.upper / str.capitalize, character by character.
LowerChar(c) == IF IsUpper(c) THEN Chr(Ord(c) + 32) ELSE c
UpperChar(c) == IF IsLower(c) THEN Chr(Ord(c) - 32) ELSE c
Lower(s) == [i \in 1..Len(s) |-> LowerChar(s[i])]
Upper(s) == [i \in 1..Len(s) |-> UpperChar(s[i])]
Capitalize(s) ==
  [i \in 1..Len(s) |-> IF i = 1 THEN UpperChar(s[i]) ELSE LowerChar(s[i])]

\* The characters of the format tags the code writes as literals.
Chars(tag) ==
  CASE tag = "doc"  -> <<"d", "o", "c">>
    [] tag = "docx" -> <<"d", "o", "c", "x">>
    [] tag = "xls"  -> <<"x", "l", "s">>
    [] tag = "xlsx" -> <<"x", "l", "s", "x">>

\* ------------------------------------------------------ pathlib, on names

\* name.rfind('.'), 1-based; 0 when there is no dot.
RFindDot(name) ==
  IF \E i \in 1..Len(name) : name[i] = "."
  THEN CHOOSE i \in 1..Len(name) :
         /\ name[i] = "."
         /\ \A j \in (i + 1)..Len(name) : name[j] # "."
  ELSE 0

\* PurePath.suffix: the last dot and what follows, unless the dot leads or ends.
Suffix(name) ==
  LET i == RFindDot(name)
  IN  IF 1 < i /\ i < Len(name) THEN SubSeq(name, i, Len(name)) ELSE <<>>

\* PurePath.stem.
Stem(name) ==
  LET i == RFindDot(name)
  IN  IF 1 < i /\ i < Len(name) THEN SubSeq(name, 1, i - 1) ELSE name

\* PurePath.with_suffix, on the last component of a path.
WithSuffix(path, suffix) ==
  LET name == path[Len(path)]
      new  == IF Suffix(name) = <<>> THEN name \o suffix
              ELSE SubSeq(name, 1, Len(name) - Len(Suffix(name))) \o suffix
  IN  [path EXCEPT ![Len(path)] = new]

Parent(path) == SubSeq(path, 1, Len(path) - 1)

\* str(path): the components joined by "/".
RECURSIVE StrOf(_)
StrOf(path) ==
  IF Len(path) = 0 THEN <<>>
  ELSE IF Len(path) = 1 THEN path[1]
  ELSE path[1] \o <<"/">> \o StrOf(Tail(path))

\* Lexicographic order of two strings by code point (str.__lt__).
StrLess(s, t) ==
  \E i \in 1..(Len(t)) :
    /\ \A j \in 1..(i - 1) : j <= Len(s) /\ s[j] = t[j]
    /\ \/ i = Len(s) + 1
       \/ i <= Len(s) /\ Ord(s[i]) < Ord(t[i])

\* Order of two paths as sorted() sees Path objects: their component lists
\* compared lexicographically, each component as a string (PurePath.__lt__).
PartsLess(p, q) ==
  \E i \in 1..(Len(q)) :
    /\ \A j \in 1..(i - 1) : j <= Len(p) /\ p[j] = q[j]
    /\ \/ i = Len(p) + 1
       \/ i <= Len(p) /\ StrLess(p[i], q[i])

\* Python's None, for an optional path (a path has at least one component).
None == <<>>

\* ---------------------------------------------------- converter.py: rules

\* DocumentConverter.SUPPORTED_EXTENSIONS: suffix -> (source tag, target tag).
SUPPORTED_EXTENSIONS ==
  [e \in {<<".">> \o Chars(t) : t \in {"doc", "docx", "xls", "xlsx"}} |->
     CASE e = <<".">> \o Chars("doc")  -> [src |-> "doc",  dst |-> "docx"]
       [] e = <<".">> \o Chars("docx") -> [src |-> "docx", dst |-> "docx"]
       [] e = <<".">> \o Chars("xls")  -> [src |-> "xls",  dst |-> "xlsx"]
       [] e = <<".">> \o Chars("xlsx") -> [src |-> "xlsx", dst |-> "xlsx"]]

\* A variant of the key without the case folding: f.suffix.
ExtKeyCaseSensitive(path) == Suffix(path[Len(path)])
\* The key the code looks a file up by: f.suffix.lower().
ExtKey(path) == Lower(Suffix(path[Len(path)]))

\* The filter of the enumeration: f.suffix.lower() in SUPPORTED_EXTENSIONS.
Eligible(path) == ExtKey(path) \in DOMAIN SUPPORTED_EXTENSIONS

\* The destination of a source, relative to the output root:
\* rel_path.with_suffix("." + target tag).
DstOf(rel) ==
  WithSuffix(rel, <<".">> \o Chars(SUPPORTED_EXTENSIONS[ExtKey(rel)].dst))

\* A variant of the sort: ascending by the path strings, sorted(files, key=str).
RECURSIVE SortedByString(_)
SortedByString(S) ==
  IF S = {} THEN <<>>
  ELSE LET m == CHOOSE x \in S :
                  \A y \in S \ {x} : StrLess(StrOf(x), StrOf(y))
       IN  <<m>> \o SortedByString(S \ {m})
\* sorted(files): ascending in the order of Path objects.
RECURSIVE SortedFiles(_)
SortedFiles(S) ==
  IF S = {} THEN <<>>
  ELSE LET m == CHOOSE x \in S : \A y \in S \ {x} : PartsLess(x, y)
       IN  <<m>> \o SortedFiles(S \ {m})

\* --------------------------------------- a directory tree: path -> bytes

\* A tree is a set of <<path, bytes>> pairs with at most one pair per path.
HasFile(tree, p) == \E e \in tree : e[1] = p
BytesAt(tree, p) == (CHOOSE e \in tree : e[1] = p)[2]
Put(tree, p, b)  == {e \in tree : e[1] # p} \cup {<<p, b>>}
Remove(tree, p)  == {e \in tree : e[1] # p}
PathsOf(tree)    == {e[1] : e \in tree}

\* Path.exists(): a file or a directory of the output tree.
Exists(p, o, d) == HasFile(o, p) \/ p \in d

\* dst.parent.mkdir(parents=True, exist_ok=True): every ancestor becomes a
\* directory; it raises when an ancestor is an existing file.
Ancestors(dir) == {SubSeq(dir, 1, k) : k \in 1..Len(dir)}
MkdirRaises(dir, o) == \E a \in Ancestors(dir) : HasFile(o, a)
Mkdir(dir, d) == d \cup Ancestors(dir)

\* ------------------------------------------------- the external engine

\* What one engine invocation can do: exit with a code, be killed by the
\* 120 s timeout, or fail to spawn; and which spelling of the target
\* extension the file it wrote (if any) carries.  A killed engine may have
\* written its output already; one that never spawned wrote nothing.
EngineOutcomes ==
  [kind : {"exit"}, rc : {"zero", "nonzero"},
   made : {"none", "lower", "upper", "title"}]
  \cup [kind : {"timeout"}, rc : {"none"},
        made : {"none", "lower", "upper", "title"}]
  \cup [kind : {"error"}, rc : {"none"}, made : {"none"}]

Cased(ext, how) ==
  CASE how = "lower" -> Lower(ext)
    [] how = "upper" -> Upper(ext)
    [] how = "title" -> Capitalize(ext)

\* The engine names its output <source stem>.<target extension>.
OutputName(src, ext) == Stem(src[Len(src)]) \o <<".">> \o ext

\* The output tree after the subprocess: the produced file, if any, written
\* (over whatever file had that name) into dst_dir.
RunEngine(src, dstDir, ext, eng, o, d) ==
  LET p == dstDir \o <<OutputName(src, Cased(ext, eng.made))>>
  IN  IF eng.made = "none" \/ p \in d THEN o
      ELSE Put(o, p, <<"conv", src>>)

\* candidates: the three spellings, in the order probed.
Candidates(src, dstDir, ext) ==
  <<dstDir \o <<OutputName(src, Lower(ext))>>,
    dstDir \o <<OutputName(src, Upper(ext))>>,
    dstDir \o <<OutputName(src, Capitalize(ext))>>>>

\* A variant of the probe that takes the canonical name for granted.
FirstAssumed(cands, o, d) == cands[1]
\* next((c for c in candidates if c.exists()), None)
FirstExisting(cands, o, d) ==
  IF \E i \in 1..Len(cands) : Exists(cands[i], o, d)
  THEN cands[CHOOSE i \in 1..Len(cands) :
               /\ Exists(cands[i], o, d)
               /\ \A j \in 1..(i - 1) : ~Exists(cands[j], o, d)]
  ELSE None

\* A variant of convert_with_libreoffice that trusts the exit code: a
\* non-zero exit is a failure whatever the output directory holds.
ConvertTrustingExitCode(src, dstDir, targetExt, eng, o, d) ==
  LET ext   == Lower(targetExt)
      after == IF eng.kind = "error" THEN o
               ELSE RunEngine(src, dstDir, ext, eng, o, d)
  IN  [out  |-> after,
       path |-> IF eng.kind = "exit" /\ eng.rc = "zero"
                THEN FirstExisting(Candidates(src, dstDir, ext), after, d)
                ELSE None]

\* convert_with_libreoffice: the tree after the call and the path returned.
\* TimeoutExpired and any other exception return None without probing.
ConvertWithLibreoffice(src, dstDir, targetExt, eng, o, d) ==
  LET ext   == Lower(targetExt)
      after == IF eng.kind = "error" THEN o
               ELSE RunEngine(src, dstDir, ext, eng, o, d)
  IN  [out  |-> after,
       path |-> IF eng.kind = "exit"
                THEN FirstExisting(Candidates(src, dstDir, ext), after, d)
                ELSE None]

\* ------------------------------------------- converter.py: process_file

\* os.rename(src, dst) on a tree: the entry, and whatever lies below it,
\* moves to the new path, replacing a file already there.
IsPrefix(a, p) == Len(a) <= Len(p) /\ SubSeq(p, 1, Len(a)) = a
Reroot(p, from, to) ==
  IF IsPrefix(from, p) THEN to \o SubSeq(p, Len(from) + 1, Len(p)) ELSE p
RenameFiles(o, from, to) ==
  {<<Reroot(e[1], from, to), e[2]>> : e \in {x \in o : x[1] # to}}
RenameDirs(d, from, to) == {Reroot(p, from, to) : p \in d}

\* shutil.copy2(src, dst): the bytes of src at dst, or inside dst when dst
\* is a directory.
CopyTarget(src, dst, d) == IF dst \in d THEN dst \o <<src[Len(src)]>> ELSE dst
Copy2(src, dst, bytes, o, d) == Put(o, CopyTarget(src, dst, d), bytes)

NoEngine == [kind |-> "none", rc |-> "none", made |-> "none"]

ConvertedTag(t) == CASE t = "doc" -> "converted_doc" [] t = "xls" -> "converted_xls"
FailedTag(t)    == CASE t = "doc" -> "failed_doc" [] t = "xls" -> "failed_xls"

\* What one call of process_file leaves behind.  raised: an exception left
\* the call.  eng: the engine invocation made (NoEngine: none).  seen: the
\* candidate names that existed right after the invocation.  found: the path
\* convert_with_libreoffice returned.  renamed: "ok", "failed", or "none"
\* when no rename was attempted.
Outcome(raised, success, status, o, d, eng, seen, found, renamed) ==
  [raised |-> raised, success |-> success, status |-> status, out |-> o,
   dirs |-> d, eng |-> eng, seen |-> seen, found |-> found,
   renamed |-> renamed]

\* The legacy branch of process_file (lines 182-197).
ConvertLegacy(src, dst, rule, o, d, env) ==
  LET dstDir == Parent(dst)
      conv   == ConvertWithLibreoffice(src, dstDir, Chars(rule.dst), env.eng, o, d)
      cands  == Candidates(src, dstDir, Chars(rule.dst))
      seen   == {cands[i] : i \in {j \in 1..3 : Exists(cands[j], conv.out, d)}}
  IN  IF conv.path # None
      THEN IF conv.path # dst
           THEN LET o2 == Remove(conv.out, dst)
                IN  IF env.renameOk
                    THEN Outcome(FALSE, TRUE, ConvertedTag(rule.src),
                                 RenameFiles(o2, conv.path, dst),
                                 RenameDirs(d, conv.path, dst),
                                 env.eng, seen, conv.path, "ok")
                    ELSE Outcome(FALSE, TRUE, ConvertedTag(rule.src), o2, d,
                                 env.eng, seen, conv.path, "failed")
           ELSE Outcome(FALSE, TRUE, ConvertedTag(rule.src), conv.out, d,
                        env.eng, seen, conv.path, "none")
      ELSE Outcome(FALSE, FALSE, FailedTag(rule.src), conv.out, d,
                   env.eng, seen, None, "none")

\* process_file(src, dst).  env is what the environment does to this call:
\* whether the copy succeeds, what the engine does, whether the rename
\* succeeds.  mkdir and copy2 are not guarded: their exceptions leave the call.
ProcessFile(src, dst, bytes, o, d, env) ==
  IF ~Eligible(src)
  THEN Outcome(FALSE, FALSE, "unsupported", o, d, NoEngine, {}, None, "none")
  ELSE
    LET rule == SUPPORTED_EXTENSIONS[ExtKey(src)]
    IN  IF MkdirRaises(Parent(dst), o)
        THEN Outcome(TRUE, FALSE, "raised", o, d, NoEngine, {}, None, "none")
        ELSE
          LET d1 == Mkdir(Parent(dst), d)
          IN  IF rule.src = rule.dst
              THEN IF env.copyOk
                   THEN Outcome(FALSE, TRUE, "copied",
                                Copy2(src, dst, bytes, o, d1), d1,
                                NoEngine, {}, None, "none")
                   ELSE Outcome(TRUE, FALSE, "raised", o, d1,
                                NoEngine, {}, None, "none")
              ELSE IF rule.src \in {"doc", "xls"}
                   THEN ConvertLegacy(src, dst, rule, o, d1, env)
                   ELSE Outcome(FALSE, FALSE, "unknown", o, d1,
                                NoEngine, {}, None, "none")

\* ----------------------------------------------- converter.py: process

\* The summary returned for an empty input with SKIP_EMPTY=true (line 215):
\* it has no failed_files entry.
EmptySummary ==
  [total |-> 0, copied |-> 0, converted_doc |-> 0, converted_xls |-> 0,
   failed |-> 0]

\* stats as initialised on lines 222-229.
NewStats(n) ==
  [total |-> n, copied |-> 0, converted_doc |-> 0, converted_xls |-> 0,
   failed |-> 0, failed_files |-> <<>>]

\* A variant of the prefix test: an exact match on "failed".
StartsWithFailedExact(status) == status = "failed"
\* status.startswith("failed")
StartsWithFailed(status) == status \in {"failed_doc", "failed_xls", "failed"}

\* The fold of one outcome into stats (lines 238-246).
FoldStatus(st, status, rel) ==
  IF status = "copied" THEN [st EXCEPT !.copied = @ + 1]
  ELSE IF status = "converted_doc" THEN [st EXCEPT !.converted_doc = @ + 1]
  ELSE IF status = "converted_xls" THEN [st EXCEPT !.converted_xls = @ + 1]
  ELSE IF StartsWithFailed(status)
       THEN [st EXCEPT !.failed = @ + 1,
                       !.failed_files = Append(@, StrOf(rel))]
  ELSE st

\* stats.get("failed_files", []), as the callers read the summary.
FailedFilesOf(st) ==
  IF "failed_files" \in DOMAIN st THEN st.failed_files ELSE <<>>

\* main's exit status for a returned summary (line 286).
ExitCodeFor(st) == IF st.failed = 0 THEN 0 ELSE 1

\* ------------------------------------------------------------- state

VARIABLES
  raw,        \* the input tree: <<relative path, bytes>> pairs
  out,        \* the files of the output tree: <<relative path, bytes>> pairs
  dirs,       \* the directories of the output tree (below its root)
  skipEmpty,  \* SKIP_EMPTY=true
  loExists,   \* the engine's executable exists
  pc,         \* where main / process stands ("raised": process raised;
              \* "init_raised": the constructor did)
  files,      \* sorted(files), the order of the loop
  idx,        \* the loop's position in files (1-based)
  stats,      \* the summary being built, then returned
  last,       \* the latest process_file call: its arguments and outcome
  log,        \* history: the dispatches, engine invocations and outcomes
  exitCode,   \* main's exit status ("none" until it exits)
  fs,         \* delete endpoint: the file system, a set of entries
  nreq,       \* delete endpoint: requests served
  req,        \* delete endpoint: the latest request
  resp,       \* delete endpoint: the latest response's status code
  before      \* delete endpoint: fs as the latest request found it

batchVars  == <<raw, out, dirs, skipEmpty, loExists, pc, files, idx, stats,
                last, log, exitCode>>
deleteVars == <<fs, nreq, req, resp, before>>
vars       == <<raw, out, dirs, skipEmpty, loExists, pc, files, idx, stats,
                last, log, exitCode, fs, nreq, req, resp, before>>

\* ------------------------------------------------- the inputs of a batch

NameADoc    == <<"a", ".", "d", "o", "c">>
NameADocx   == <<"a", ".", "d", "o", "c", "x">>
NameADOCX   == <<"a", ".", "D", "O", "C", "X">>
NameBXlsx   == <<"b", ".", "x", "l", "s", "x">>
NameBXLS    == <<"b", ".", "X", "L", "S">>
NameCTmp    == <<"c", ".", "t", "m", "p">>
NameA       == <<"a">>

\* The relative paths an input tree may hold: a.doc, a.docx, a.DOCX, b.xlsx,
\* c.tmp and a/b.XLS.
FileUniverse ==
  {<<NameADoc>>, <<NameADocx>>, <<NameADOCX>>, <<NameBXlsx>>, <<NameCTmp>>,
   <<NameA, NameBXLS>>}

\* The bytes of an input file, a conversion result, and a file left in the
\* output tree by an earlier batch.
InputBytes(f) == <<"in", f>>
StaleBytes    == <<"stale", <<>>>>

\* What an earlier batch may have left in the output tree.
StaleTrees == {{}, {<<<<NameADocx>>, StaleBytes>>}}

Envs == [copyOk : BOOLEAN, eng : EngineOutcomes, renameOk : BOOLEAN]

NoCall ==
  [src |-> None, dst |-> None, raised |-> FALSE, success |-> FALSE,
   status |-> "none", eng |-> NoEngine, seen |-> {}, found |-> None,
   renamed |-> "none"]

CallRecord(src, dst, r) ==
  [src |-> src, dst |-> dst, raised |-> r.raised, success |-> r.success,
   status |-> r.status, eng |-> r.eng, seen |-> r.seen, found |-> r.found,
   renamed |-> r.renamed]

\* A history event: "dispatch" (process_file is called), "engine" (the
\* subprocess is run, with what it did) or "outcome" (the status is folded).
Event(ev, file, status, eng) ==
  [ev |-> ev, file |-> file, status |-> status, eng |-> eng]

DeleteIdle ==
  /\ fs = {}
  /\ nreq = 0
  /\ req = [path |-> "none", file |-> <<>>]
  /\ resp = 0
  /\ before = {}

Init ==
  /\ \E S \in SUBSET FileUniverse :
       /\ Cardinality(S) <= MaxFiles
       /\ raw = {<<f, InputBytes(f)>> : f \in S}
  /\ out \in StaleTrees
  /\ dirs = {}
  /\ skipEmpty \in BOOLEAN
  /\ loExists \in BOOLEAN
  /\ pc = "main"
  /\ files = <<>>
  /\ idx = 1
  /\ stats = EmptySummary
  /\ last = NoCall
  /\ log = <<>>
  /\ exitCode = "none"
  /\ DeleteIdle

\* --------------------------------------------------- the batch's steps

\* main, lines 279-284, and __init__: the converter is constructed, or the
\* constructor raises because the engine's executable is missing.
Construct ==
  /\ pc = "main"
  /\ pc' = IF loExists THEN "constructed" ELSE "init_raised"
  /\ UNCHANGED <<raw, out, dirs, skipEmpty, loExists, files, idx, stats,
                 last, log, exitCode>>
  /\ UNCHANGED deleteVars

\* process, lines 203-229: enumerate, handle the empty input, set up stats.
Enumerate ==
  /\ pc = "constructed"
  /\ LET found == {f \in PathsOf(raw) : Eligible(f)}
     IN  IF found = {}
         THEN /\ pc' = IF skipEmpty THEN "returned" ELSE "raised"
              /\ stats' = EmptySummary
              /\ files' = <<>>
         ELSE /\ pc' = "loop"
              /\ stats' = NewStats(Cardinality(found))
              /\ files' = SortedFiles(found)
  /\ idx' = 1
  /\ UNCHANGED <<raw, out, dirs, skipEmpty, loExists, last, log, exitCode>>
  /\ UNCHANGED deleteVars

\* The loop body up to the return of process_file (lines 231-236).
Dispatch ==
  /\ pc = "loop"
  /\ idx <= Len(files)
  /\ \E env \in Envs :
       LET rel == files[idx]
           dst == DstOf(rel)
           r   == ProcessFile(rel, dst, BytesAt(raw, rel), out, dirs, env)
       IN  /\ out' = r.out
           /\ dirs' = r.dirs
           /\ last' = CallRecord(rel, dst, r)
           /\ log' = log \o <<Event("dispatch", rel, "", NoEngine)>>
                         \o (IF r.eng.kind # "none"
                             THEN <<Event("engine", rel, "", r.eng)>>
                             ELSE <<>>)
           /\ pc' = IF r.raised THEN "raised" ELSE "fold"
  /\ UNCHANGED <<raw, skipEmpty, loExists, files, idx, stats, exitCode>>
  /\ UNCHANGED deleteVars

\* The rest of the loop body: the outcome folded into stats (lines 238-249).
Fold ==
  /\ pc = "fold"
  /\ stats' = FoldStatus(stats, last.status, files[idx])
  /\ log' = Append(log, Event("outcome", files[idx], last.status, NoEngine))
  /\ idx' = idx + 1
  /\ pc' = "loop"
  /\ UNCHANGED <<raw, out, dirs, skipEmpty, loExists, files, last, exitCode>>
  /\ UNCHANGED deleteVars

\* The loop is over: process returns stats (lines 251-274).
Return ==
  /\ pc = "loop"
  /\ idx > Len(files)
  /\ pc' = "returned"
  /\ UNCHANGED <<raw, out, dirs, skipEmpty, loExists, files, idx, stats,
                 last, log, exitCode>>
  /\ UNCHANGED deleteVars

\* main, lines 286-289: the exit status.
Exit ==
  /\ pc \in {"returned", "raised", "init_raised"}
  /\ exitCode' = IF pc = "returned" THEN ExitCodeFor(stats) ELSE 2
  /\ pc' = "exit"
  /\ UNCHANGED <<raw, out, dirs, skipEmpty, loExists, files, idx, stats,
                 last, log>>
  /\ UNCHANGED deleteVars

Next == Construct \/ Enumerate \/ Dispatch \/ Fold \/ Return \/ Exit

Spec == Init /\ [][Next]_vars

\* ------------------------------------------- app/main.py: the delete endpoint

\* The file system the endpoint works on: a set of entries, each a
\* directory, a regular file, or a symbolic link with its target.
DirEntry(p)      == [path |-> p, kind |-> "dir",  target |-> <<>>]
FileEntry(p)     == [path |-> p, kind |-> "file", target |-> <<>>]
LinkEntry(p, t)  == [path |-> p, kind |-> "link", target |-> t]

HasEntry(tree, p) == \E e \in tree : e.path = p
EntryAt(tree, p)  == CHOOSE e \in tree : e.path = p
KindAt(tree, p)   == IF HasEntry(tree, p) THEN EntryAt(tree, p).kind ELSE "none"

NameApp      == <<"a", "p", "p">>
NameRaw      == <<"r", "a", "w">>
NamePrepared == <<"p", "r", "e", "p", "a", "r", "e", "d">>
NameEtc      == <<"e", "t", "c">>
NamePasswd   == <<"p", "a", "s", "s", "w", "d">>
NameSDoc     == <<"s", ".", "d", "o", "c">>
DotDot       == <<".", ".">>

\* RAW_DATA_DIR and PREPARED_DATA_DIR (lines 83-84), as absolute paths.
RAW_DATA_DIR      == <<NameApp, NameRaw>>
PREPARED_DATA_DIR == <<NameApp, NamePrepared>>

\* str.split("/")
RECURSIVE SplitSlash(_, _)
SplitSlash(s, acc) ==
  IF s = <<>> THEN <<acc>>
  ELSE IF Head(s) = "/" THEN <<acc>> \o SplitSlash(Tail(s), <<>>)
  ELSE SplitSlash(Tail(s), Append(acc, Head(s)))

\* Path(filename).parts without the anchor: empty and "." components are
\* dropped, ".." components are kept.
PartsOf(s) ==
  SelectSeq(SplitSlash(s, <<>>), LAMBDA c : c # <<>> /\ c # <<".">>)

\* Path(filename).name: the last part, or "" when there is none.
NameOf(s) ==
  LET parts == PartsOf(s)
  IN  IF parts = <<>> THEN <<>> ELSE parts[Len(parts)]

\* base / name: base itself when the name is empty.
Join(base, name) == IF name = <<>> THEN base ELSE Append(base, name)

\* The kernel's reading of a path: ".." steps up (the root's parent is the
\* root).  Directories are never links here.
RECURSIVE Normalize(_, _)
Normalize(p, acc) ==
  IF p = <<>> THEN acc
  ELSE IF Head(p) = DotDot
       THEN Normalize(Tail(p), IF acc = <<>> THEN <<>> ELSE Parent(acc))
       ELSE Normalize(Tail(p), Append(acc, Head(p)))

\* Path.resolve(): normalised, and a link replaced by its target.
Resolve(tree, p) ==
  LET n == Normalize(p, <<>>)
  IN  IF KindAt(tree, n) = "link" THEN EntryAt(tree, n).target ELSE n

\* Path.exists(): follows a link to its target.
PathExists(tree, p) ==
  LET r == Resolve(tree, p) IN r = <<>> \/ HasEntry(tree, r)

\* resolved.relative_to(base.resolve()) does not raise.
RelativeTo(resolved, base) == IsPrefix(base, resolved)

\* _validate_path_param (lines 130-134).
ValidPathParam(path) == path \in {"raw", "prepared"}
BaseDir(path) == IF path = "raw" THEN RAW_DATA_DIR ELSE PREPARED_DATA_DIR

\* A variant of _safe_join without the containment check.
SafeJoinUnchecked(base, filename, tree) ==
  [ok |-> TRUE, path |-> Join(base, NameOf(filename))]
\* _safe_join (lines 136-144): ok is FALSE when it raises the 400.
SafeJoin(base, filename, tree) ==
  LET result == Join(base, NameOf(filename))
  IN  [ok   |-> RelativeTo(Resolve(tree, result), Resolve(tree, base)),
       path |-> result]

\* Path.unlink(): removes the entry itself (a link, not its target); raises
\* on a directory.
UnlinkRaises(tree, p) == KindAt(tree, Normalize(p, <<>>)) \in {"dir", "none"}
Unlink(tree, p) == {e \in tree : e.path # Normalize(p, <<>>)}

\* delete_file (lines 235-257): the status code and the file system after.
DeleteFile(path, file, tree) ==
  IF ~ValidPathParam(path) THEN [code |-> 400, fs |-> tree]
  ELSE
    LET sj == SafeJoin(BaseDir(path), file, tree)
    IN  IF ~sj.ok THEN [code |-> 400, fs |-> tree]
        ELSE IF ~PathExists(tree, sj.path) THEN [code |-> 404, fs |-> tree]
        ELSE IF UnlinkRaises(tree, sj.path) THEN [code |-> 500, fs |-> tree]
        ELSE [code |-> 200, fs |-> Unlink(tree, sj.path)]

\* The path and file arguments a request may carry.
PathParams == {"raw", "prepared", "tmp"}

ArgTraversalPasswd == <<".", ".", "/", ".", ".", "/">> \o NameEtc \o <<"/">> \o NamePasswd
ArgTraversalADoc   == <<".", ".", "/">> \o NameADoc
ArgAbsolutePasswd  == <<"/">> \o NameEtc \o <<"/">> \o NamePasswd

FileArgs ==
  {ArgTraversalPasswd, ArgTraversalADoc, ArgAbsolutePasswd, NamePasswd,
   NameADoc, NameSDoc, DotDot, <<".">>}

\* The file systems a run starts from: the two managed roots, /etc/passwd
\* outside them, and in each root any of passwd, a.doc and a link s.doc that
\* points out of the root (to /etc/passwd) or into it (to its a.doc).
Skeleton ==
  {DirEntry(<<NameApp>>), DirEntry(RAW_DATA_DIR), DirEntry(PREPARED_DATA_DIR),
   DirEntry(<<NameEtc>>), FileEntry(<<NameEtc, NamePasswd>>)}

RootContents(base) ==
  {fsub \cup lsub :
     fsub \in SUBSET {FileEntry(Append(base, NamePasswd)),
                      FileEntry(Append(base, NameADoc))},
     lsub \in {{},
               {LinkEntry(Append(base, NameSDoc), <<NameEtc, NamePasswd>>)},
               {LinkEntry(Append(base, NameSDoc), Append(base, NameADoc))}}}

BatchIdle ==
  /\ raw = {}
  /\ out = {}
  /\ dirs = {}
  /\ skipEmpty = FALSE
  /\ loExists = TRUE
  /\ pc = "serving"
  /\ files = <<>>
  /\ idx = 1
  /\ stats = EmptySummary
  /\ last = NoCall
  /\ log = <<>>
  /\ exitCode = "none"

InitDelete ==
  /\ BatchIdle
  /\ \E r \in RootContents(RAW_DATA_DIR), q \in RootContents(PREPARED_DATA_DIR) :
       fs = Skeleton \cup r \cup q
  /\ nreq = 0
  /\ req = [path |-> "none", file |-> <<>>]
  /\ resp = 0
  /\ before = fs

\* One DELETE /delete/{path}/{file} request, served whole.
Delete ==
  /\ nreq < MaxRequests
  /\ \E path \in PathParams, file \in FileArgs :
       LET r == DeleteFile(path, file, fs)
       IN  /\ req' = [path |-> path, file |-> file]
           /\ resp' = r.code
           /\ fs' = r.fs
  /\ before' = fs
  /\ nreq' = nreq + 1
  /\ UNCHANGED batchVars

NextDelete == Delete

SpecDelete == InitDelete /\ [][NextDelete]_vars

\* ================================================================ claims

\* process has returned a summary (to main, which may have exited since).
SummaryReturned == pc = "returned" \/ (pc = "exit" /\ exitCode \in {0, 1})

\* The files given an outcome so far with one of the statuses, in order.
OutcomesWith(statuses) ==
  SelectSeq(log, LAMBDA e : e.ev = "outcome" /\ e.status \in statuses)

\* C1: in every summary process returns, copied + converted_doc +
\* converted_xls + failed equals total, and failed_files has as many entries
\* as failed counts (the summary of an empty input carries no failed_files:
\* it is read as the empty list, as the callers read it).
C1_SummaryAddsUp ==
  SummaryReturned =>
    /\ stats.copied + stats.converted_doc + stats.converted_xls + stats.failed
         = stats.total
    /\ Len(FailedFilesOf(stats)) = stats.failed

\* C1's case: a returned summary of three files, one copied, one converted
\* and one failed.
C1_Witness ==
  /\ pc = "returned"
  /\ stats.total = 3
  /\ stats.copied = 1
  /\ stats.converted_doc + stats.converted_xls = 1
  /\ stats.failed = 1

\* ------------------------------------------------------------------ delete

InRoots(p) == IsPrefix(RAW_DATA_DIR, p) \/ IsPrefix(PREPARED_DATA_DIR, p)

\* The final component of a file argument, as written: what follows its
\* last "/".
FinalComponent(s) ==
  LET c == SplitSlash(s, <<>>) IN c[Len(c)]

HasParentComponent(s) ==
  LET c == SplitSlash(s, <<>>) IN \E i \in 1..Len(c) : c[i] = DotDot

\* C2 (as claimed): a delete request whose file argument contains a
\* parent-directory component is answered 400, for raw and for prepared,
\* whether or not the managed root holds a file of the same final name.
C2_TraversalRejected ==
  (nreq > 0 /\ ValidPathParam(req.path) /\ HasParentComponent(req.file))
    => resp = 400

\* C3: a delete request removes no entry whose resolved location is outside
\* the two managed roots; it removes at most the entry directly inside the
\* selected root named by the final component of the file argument, and
\* only when it answers 200; with a path other than raw and prepared it
\* answers 400 and changes nothing.
C3_DeleteConfined ==
  /\ fs \subseteq before
  /\ \A e \in before : ~InRoots(Resolve(before, e.path)) => e \in fs
  /\ DirEntry(RAW_DATA_DIR) \in fs /\ DirEntry(PREPARED_DATA_DIR) \in fs
  /\ nreq > 0 =>
       /\ ~ValidPathParam(req.path) => (resp = 400 /\ fs = before)
       /\ resp # 200 => fs = before
       /\ ValidPathParam(req.path) =>
            \A e \in before \ fs :
              e.path = Append(BaseDir(req.path), FinalComponent(req.file))

\* C3's case: the second request of a run, carrying ../../etc/passwd, has
\* removed the root's own passwd, and /etc/passwd is still there.
C3_Witness ==
  /\ nreq = 2
  /\ req.file = ArgTraversalPasswd
  /\ resp = 200
  /\ fs # before
  /\ FileEntry(<<NameEtc, NamePasswd>>) \in fs

\* ------------------------------------------------------------- the batch

\* process_file has returned for a legacy input (its outcome is in last).
LegacyCallReturned ==
  /\ pc = "fold"
  /\ SUPPORTED_EXTENSIONS[ExtKey(last.src)].src \in {"doc", "xls"}

LastType == SUPPORTED_EXTENSIONS[ExtKey(last.src)].src

\* The three names probed for the latest call, in the order probed.
LastProbed ==
  Candidates(last.src, Parent(last.dst),
             Chars(SUPPORTED_EXTENSIONS[ExtKey(last.src)].dst))

\* The first of the probed names that existed after the invocation.
FirstSeen ==
  LastProbed[CHOOSE i \in 1..3 :
               /\ LastProbed[i] \in last.seen
               /\ \A j \in 1..(i - 1) : LastProbed[j] \notin last.seen]

\* C4 (as claimed): a legacy input is reported converted_<type> if one of the
\* three spellings exists in the destination directory after the engine
\* invocation, and failed_<type> if none does.
C4_ProbeDecides ==
  LegacyCallReturned =>
    /\ last.seen # {} => last.status = ConvertedTag(LastType)
    /\ last.seen = {} => last.status = FailedTag(LastType)

\* C4 (amended): when the engine invocation returns, with whatever exit
\* code, the input is reported converted_<type> if one of the three spellings
\* exists afterwards (the first in probe order is taken) and failed_<type> if
\* none does; when the invocation times out or raises, the input is reported
\* failed_<type> whatever the destination directory holds.
C4_ProbeDecidesOnReturn ==
  LegacyCallReturned =>
    /\ (last.eng.kind = "exit" /\ last.seen # {}) =>
         (last.status = ConvertedTag(LastType) /\ last.found = FirstSeen)
    /\ (last.eng.kind = "exit" /\ last.seen = {}) =>
         last.status = FailedTag(LastType)
    /\ last.eng.kind \in {"timeout", "error"} =>
         last.status = FailedTag(LastType)

\* C4's case: the engine exited non-zero, left the upper-case spelling, and
\* the file is reported converted.
C4_Witness ==
  /\ LegacyCallReturned
  /\ last.eng.kind = "exit"
  /\ last.eng.rc = "nonzero"
  /\ last.eng.made = "upper"
  /\ last.found = LastProbed[2]
  /\ last.status = ConvertedTag(LastType)

\* C5 (as claimed): once process has enumerated a non-empty set of files it
\* never raises and main never exits 2; each file is dispatched exactly once,
\* in its turn, the engine runs at most once for it, and it is given exactly
\* one outcome.
C5_NeverAborts ==
  Len(files) > 0 =>
    /\ pc # "raised"
    /\ pc = "exit" => exitCode # 2
    /\ \A i \in 1..Len(files) :
         /\ Cardinality({k \in 1..Len(log) :
               log[k].ev = "dispatch" /\ log[k].file = files[i]})
              = (IF i < idx \/ (i = idx /\ pc = "fold") THEN 1 ELSE 0)
         /\ Cardinality({k \in 1..Len(log) :
               log[k].ev = "engine" /\ log[k].file = files[i]}) <= 1
         /\ Cardinality({k \in 1..Len(log) :
               log[k].ev = "outcome" /\ log[k].file = files[i]})
              = (IF i < idx THEN 1 ELSE 0)

\* The dispatches so far, in order.
Dispatched == SelectSeq(log, LAMBDA e : e.ev = "dispatch")

\* The log without the engine invocations.
Calls == SelectSeq(log, LAMBDA e : e.ev # "engine")

\* One file at a time: a dispatch is followed by that file's outcome before
\* the next dispatch, and an engine invocation belongs to the dispatch just
\* before it.
OneAtATime ==
  /\ \A i \in 1..Len(Calls) :
       IF i % 2 = 1 THEN Calls[i].ev = "dispatch"
       ELSE Calls[i].ev = "outcome" /\ Calls[i].file = Calls[i - 1].file
  /\ \A k \in 1..Len(log) :
       log[k].ev = "engine" =>
         (k > 1 /\ log[k - 1].ev = "dispatch" /\ log[k - 1].file = log[k].file)

\* failed_files lists the failed relative paths in the order of the outcomes.
FailedInOrder ==
  LET failed == OutcomesWith({"failed_doc", "failed_xls"})
  IN  FailedFilesOf(stats) = [i \in 1..Len(failed) |-> StrOf(failed[i].file)]

\* C6 (as claimed): the files are handled one at a time in ascending order
\* of their full path strings (the input root is a common prefix), and
\* failed_files follows that order.
C6_StringOrder ==
  /\ \A i, j \in 1..Len(Dispatched) :
       i < j => StrLess(StrOf(Dispatched[i].file), StrOf(Dispatched[j].file))
  /\ OneAtATime
  /\ FailedInOrder

\* C6 (amended): the files are handled one at a time in ascending order of
\* their paths compared component by component (the order of Path objects,
\* in which a/b.XLS precedes a.doc), and failed_files follows that order.
C6_ComponentOrder ==
  /\ \A i, j \in 1..Len(Dispatched) :
       i < j => PartsLess(Dispatched[i].file, Dispatched[j].file)
  /\ OneAtATime
  /\ FailedInOrder

\* C6's case: a/b.XLS was handled before a.doc, both failed, and the batch
\* has returned.
C6_Witness ==
  /\ pc = "returned"
  /\ Len(Dispatched) >= 2
  /\ Dispatched[1].file = <<NameA, NameBXLS>>
  /\ Dispatched[2].file = <<NameADoc>>
  /\ FailedFilesOf(stats) = <<StrOf(<<NameA, NameBXLS>>), NameADoc>>

\* C7 (as claimed): when the batch has completed, every file reported copied
\* has its bytes at its mirrored destination, and is itself unchanged.
C7_CopiedBytesEqual ==
  pc = "returned" =>
    \A k \in 1..Len(log) :
      (log[k].ev = "outcome" /\ log[k].status = "copied") =>
        /\ HasFile(out, DstOf(log[k].file))
        /\ BytesAt(out, DstOf(log[k].file)) = InputBytes(log[k].file)
        /\ <<log[k].file, InputBytes(log[k].file)>> \in raw

\* The inputs of the universe with one of the four extensions, in any
\* casing, each with its documented (source, target) pair and its mirrored
\* destination: a.doc, a.docx, a.DOCX, b.xlsx and a/b.XLS.
Documented ==
  {[file |-> <<NameADoc>>,  src |-> "doc",  dst |-> "docx", to |-> <<NameADocx>>],
   [file |-> <<NameADocx>>, src |-> "docx", dst |-> "docx", to |-> <<NameADocx>>],
   [file |-> <<NameADOCX>>, src |-> "docx", dst |-> "docx", to |-> <<NameADocx>>],
   [file |-> <<NameBXlsx>>, src |-> "xlsx", dst |-> "xlsx", to |-> <<NameBXlsx>>],
   [file |-> <<NameA, NameBXLS>>, src |-> "xls", dst |-> "xlsx",
    to |-> <<NameA, NameBXlsx>>]}

Recognized == {r.file : r \in Documented}
DocumentedFor(f) == CHOOSE r \in Documented : r.file = f

\* The statuses a file of a source type may be given.
StatusesOf(t) ==
  CASE t \in {"docx", "xlsx"} -> {"copied"}
    [] t = "doc" -> {"converted_doc", "failed_doc"}
    [] t = "xls" -> {"converted_xls", "failed_xls"}

\* The input of the spec's example: a.doc, b.xlsx and c.tmp.
ExampleInput == {<<NameADoc>>, <<NameBXlsx>>, <<NameCTmp>>}

\* The engine ran once for a.doc, exited zero and wrote a.docx.
EngineSucceeded ==
  \E k \in 1..Len(log) :
    /\ log[k].ev = "engine"
    /\ log[k].eng = [kind |-> "exit", rc |-> "zero", made |-> "lower"]

\* C8: the four extensions are recognised in any casing, with the documented
\* pairs; total counts exactly the recognised files; a file with another
\* extension is never dispatched and appears nowhere in the summary; and the
\* example's input gives the example's summary.
C8_Recognition ==
  /\ \A f \in PathsOf(raw) :
       /\ Eligible(f) <=> f \in Recognized
       /\ f \in Recognized =>
            /\ SUPPORTED_EXTENSIONS[ExtKey(f)].src = DocumentedFor(f).src
            /\ SUPPORTED_EXTENSIONS[ExtKey(f)].dst = DocumentedFor(f).dst
  /\ pc \in {"loop", "fold", "returned"} =>
       stats.total = Cardinality(PathsOf(raw) \cap Recognized)
  /\ \A k \in 1..Len(log) : log[k].file \in PathsOf(raw) \cap Recognized
  /\ \A k \in 1..Len(log) :
       log[k].ev = "outcome" =>
         log[k].status \in StatusesOf(DocumentedFor(log[k].file).src)
  /\ pc = "fold" => last.dst = DocumentedFor(last.src).to
  /\ \A i \in 1..Len(FailedFilesOf(stats)) :
       \E f \in Recognized : FailedFilesOf(stats)[i] = StrOf(f)
  /\ (SummaryReturned /\ PathsOf(raw) = ExampleInput /\ EngineSucceeded) =>
       stats = [total |-> 2, copied |-> 1, converted_doc |-> 1,
                converted_xls |-> 0, failed |-> 0, failed_files |-> <<>>]

\* C8's case: the example's batch has returned the example's summary, after
\* the engine converted a.doc.
C8_Witness ==
  /\ pc = "returned"
  /\ PathsOf(raw) = ExampleInput
  /\ EngineSucceeded
  /\ stats.total = 2 /\ stats.copied = 1 /\ stats.converted_doc = 1

\* C9 (as claimed): process raises if and only if no eligible file is found
\* and SKIP_EMPTY is off; with no eligible file and SKIP_EMPTY on it returns
\* an all-zero summary without invoking the engine or writing anything; main
\* exits 0 without a failure, 1 with one, 2 on an uncaught error.
C9_FatalOnlyWhenEmpty ==
  LET empty   == PathsOf(raw) \cap Recognized = {}
      errored == ~loExists \/ (empty /\ ~skipEmpty) \/ last.raised
  IN  /\ pc = "raised" => (empty /\ ~skipEmpty)
      /\ pc \in {"loop", "fold", "returned"} => ~(empty /\ ~skipEmpty)
      /\ (pc = "returned" /\ empty) =>
           (stats = EmptySummary /\ log = <<>> /\ dirs = {})
      /\ pc = "exit" =>
           exitCode = (IF errored THEN 2
                       ELSE IF stats.failed = 0 THEN 0 ELSE 1)

Succeeded ==
  {log[k].file : k \in {i \in 1..Len(log) :
     /\ log[i].ev = "outcome"
     /\ log[i].status \in {"copied", "converted_doc", "converted_xls"}}}

\* C11 (as claimed): the files of one batch are given pairwise distinct
\* destination paths, and at batch end the output tree holds at least one
\* file for each file reported copied or converted.
C11_DistinctDestinations ==
  /\ \A i, j \in 1..Len(files) :
       i # j => DstOf(files[i]) # DstOf(files[j])
  /\ pc = "returned" => Cardinality(PathsOf(out)) >= Cardinality(Succeeded)

====
